---- MODULE Spec2Model ----
(***************************************************************************)
(* Model of the moving-map gauge of SoFIS (src/map-gauge.c): the viewport  *)
(* controller (zoom level, world origin, marker, follow/roam state), the   *)
(* per-frame patch compositor (map_gauge_update_state) and the tile        *)
(* providers it queries; and of the X-Plane telemetry decoder             *)
(* (src/xp-data-source.c, xp_data_source_frame).                           *)
(*                                                                         *)
(* Number representation.  TLC's integers are 32 bits wide, so a uint32_t  *)
(* value v is represented by the integer congruent to v modulo 2^32 in     *)
(* [-2^31, 2^31) (its two's complement reading): additions and             *)
(* subtractions are then the plain ones as long as no intermediate result  *)
(* leaves that interval (all values here stay below 2^25 in magnitude),    *)
(* unsigned comparisons are ULess/ULeq, and the conversion uint32_t -> int *)
(* done when an SDL_Rect is filled is the identity.                        *)
(*                                                                         *)
(* Geographic positions.  A (latitude, longitude) pair is represented by   *)
(* its normalised Web-Mercator coordinates <<gx, gy>> in units of          *)
(* 1/GeoRes of the world (GeoRes = one pixel of level 15), so that the     *)
(* projection of map-math.c is exact integer arithmetic.                   *)
(***************************************************************************)
EXTENDS Integers, Sequences, FiniteSets, TLC

(* ------------------------------------------------------------------ *)
(* Program constants                                                   *)
(* ------------------------------------------------------------------ *)
TILE_SIZE == 256
MANIPULATE_TIMEOUT == 2000
PIX_LIMIT == 10
MAP_GAUGE_MAX_LEVEL == 15
\* plane32.png: the marker sprite is 32x32
MARKER_W == 32
MARKER_H == 32
\* tile_providers[]: two providers are created by map_gauge_init
NTILE_PROVIDERS == 2

(* ------------------------------------------------------------------ *)
(* State                                                               *)
(* ------------------------------------------------------------------ *)
VARIABLES
    gw, gh,              \* base_gauge_w / base_gauge_h, fixed by map_gauge_init
    level,               \* self->level
    world_x, world_y,    \* self->world_x, self->world_y (uint32_t)
    marker_x, marker_y,  \* self->marker.x, self->marker.y (uint32_t)
    marker_heading,      \* self->marker.heading
    roaming,             \* self->roaming
    last_manipulation,   \* self->last_manipulation (SDL ticks)
    dirty,               \* BASE_GAUGE(self)->dirty
    marker_src,          \* self->state.marker_src
    marker_dst,          \* self->state.marker_dst
    patches,             \* self->state.patches[0 .. npatches-1]
    apatches,            \* self->state.apatches
    cache,               \* per provider: cached tile keys, least recently used first
    refcnt,              \* reference count of every cached image (<<provider, key>>)
    pending,             \* per provider: the fetches in flight, oldest first
    source,              \* per provider: the tile keys its imagery source can deliver
    now,                 \* SDL_GetTicks()
    op,                  \* history: the last operation called
    ret,                 \* history: its return value
    centers,             \* history: map_gauge_center_on_marker calls it made
    trace,               \* history: what the last update did (requests, evictions, ...)
    xp                   \* the telemetry decoder (xp-data-source.c): decoded fields and
                         \* the accesses its last frame made

ctlvars == <<level, world_x, world_y, marker_x, marker_y, marker_heading,
             roaming, last_manipulation, dirty, marker_src>>
framevars == <<marker_dst, patches, apatches, cache, refcnt, pending, trace>>
vars == <<gw, gh, level, world_x, world_y, marker_x, marker_y, marker_heading,
          roaming, last_manipulation, dirty, marker_src, marker_dst, patches,
          apatches, cache, refcnt, pending, source, now, op, ret, centers, trace, xp>>

\* xp-data-source.c
BUFFER_SIZE == 1024
LOOKUP_TABLE_SIZE == 100
MAX_ROW_ID == 62
HEADER_SIZE == 5
ROW_SIZE == 36

(* ------------------------------------------------------------------ *)
(* uint32_t arithmetic on two's complement representatives             *)
(* ------------------------------------------------------------------ *)
ULess(a, b) == IF (a >= 0) = (b >= 0) THEN a < b ELSE b < 0
ULeq(a, b) == a = b \/ ULess(a, b)
\* unsigned a / TILE_SIZE, as a mathematical integer (2^32 / 256 = 16777216)
UDivTile(a) == IF a >= 0 THEN a \div TILE_SIZE ELSE 16777216 + (a \div TILE_SIZE)

Pow2(n) == 2 ^ n

Rect(x, y, w, h) == [x |-> x, y |-> y, w |-> w, h |-> h]
NoRect == Rect(-1, -1, -1, -1)
ZeroRect == Rect(0, 0, 0, 0)

SDL_RectEmpty(r) == r.w <= 0 \/ r.h <= 0

Max(a, b) == IF a > b THEN a ELSE b
Min(a, b) == IF a < b THEN a ELSE b

\* SDL_IntersectRect(A, B, result): the rectangle written to *result and the
\* value returned.  With an empty operand only w and h of *result are written.
SDL_IntersectRect(A, B, old) ==
    IF SDL_RectEmpty(A) \/ SDL_RectEmpty(B)
    THEN [rect |-> Rect(old.x, old.y, 0, 0), hit |-> FALSE]
    ELSE LET x0 == Max(A.x, B.x)
             x1 == Min(A.x + A.w, B.x + B.w)
             y0 == Max(A.y, B.y)
             y1 == Min(A.y + A.h, B.y + B.h)
             r  == Rect(x0, y0, x1 - x0, y1 - y0)
         IN  [rect |-> r, hit |-> ~SDL_RectEmpty(r)]

(* ------------------------------------------------------------------ *)
(* CoordinateMath (map-math.h, map-math.c)                             *)
(* ------------------------------------------------------------------ *)
map_math_size(l) == 256 * Pow2(l)

map_math_clip(n, minValue, maxValue) == Min(Max(n, minValue), maxValue)

\* one pixel of level 15, the unit of the normalised geographic coordinates
GeoRes == map_math_size(MAP_GAUGE_MAX_LEVEL)
GeoScale(l) == Pow2(MAP_GAUGE_MAX_LEVEL - l)

\* floor(g * mapSize / GeoRes + 0.5) clipped to [0, mapSize - 1]
GeoToPix(g, l) ==
    map_math_clip((2 * map_math_clip(g, 0, GeoRes) + GeoScale(l)) \div (2 * GeoScale(l)),
                  0, map_math_size(l) - 1)

map_math_geo_to_pixel(geo, l) == <<GeoToPix(geo[1], l), GeoToPix(geo[2], l)>>

map_math_pixel_to_geo(px, py, l) ==
    <<map_math_clip(px, 0, map_math_size(l) - 1) * GeoScale(l),
      map_math_clip(py, 0, map_math_size(l) - 1) * GeoScale(l)>>

(* ------------------------------------------------------------------ *)
(* The controller as a record, so that handlers can call each other    *)
(* ------------------------------------------------------------------ *)
\* centers, follows and ret describe the call being made: the calls of
\* map_gauge_center_on_marker and map_gauge_follow_marker it made, and its result
Self ==
    [w |-> gw, h |-> gh, level |-> level, world_x |-> world_x, world_y |-> world_y,
     marker_x |-> marker_x, marker_y |-> marker_y, marker_heading |-> marker_heading,
     roaming |-> roaming, last_manipulation |-> last_manipulation, dirty |-> dirty,
     marker_src |-> marker_src, centers |-> 0, follows |-> 0, ret |-> FALSE]

\* misc.h clamp() on uint32_t operands: the comparisons are unsigned
\* C passes self by value of the pointer: the argument expression is evaluated once
\* and the handler body sees its value.  ByValue(x, F) is F(x) with x evaluated once.
ByValue(x, F(_)) == CHOOSE r \in {F(v) : v \in {x}} : TRUE

clamp(x, lo, hi) == IF ULess(x, lo) THEN lo ELSE IF ULess(hi, x) THEN hi ELSE x

base_gauge_center_x(s) == s.w \div 2
base_gauge_center_y(s) == s.h \div 2

map_gauge_marker_left(s) == s.marker_x - MARKER_W \div 2
map_gauge_marker_top(s) == s.marker_y - MARKER_H \div 2
map_gauge_marker_worldbox(s) ==
    Rect(map_gauge_marker_left(s), map_gauge_marker_top(s), MARKER_W, MARKER_H)
map_gauge_viewport(s) == Rect(s.world_x, s.world_y, s.w, s.h)

\* mutant of Animated: the caller's flag is honoured (line 375 missing)
Animated_as_requested(animated) == animated

\* line 375, animated = false: the value tested at line 376
Animated(animated) == FALSE

map_gauge_set_viewport(self, x0, y0, animated) ==
    ByValue(self, LAMBDA s :
    LET map_lastcoord == map_math_size(s.level) - 1
        x == clamp(x0, 0, map_lastcoord - s.w)
        y == clamp(y0, 0, map_lastcoord - s.h)
    IN  IF x = s.world_x /\ y = s.world_y
        THEN [s EXCEPT !.ret = FALSE]
        ELSE IF Animated(animated)
        THEN [s EXCEPT !.ret = TRUE]    \* the animation branch is empty
        ELSE [s EXCEPT !.world_x = x, !.world_y = y, !.dirty = TRUE, !.ret = TRUE])

map_gauge_move_viewport(s, dx, dy, animated) ==
    map_gauge_set_viewport(s, s.world_x + dx, s.world_y + dy, animated)

map_gauge_center_on_marker(self, animated) ==
    ByValue(self, LAMBDA s :
    map_gauge_set_viewport([s EXCEPT !.centers = @ + 1],
        map_gauge_marker_left(s) - base_gauge_center_x(s),
        map_gauge_marker_top(s) - base_gauge_center_y(s),
        animated))

\* lines 317-320: the four edge tests, in uint32_t arithmetic
FollowEdgeTest(s) ==
    \/ ULeq(map_gauge_marker_left(s), s.world_x + PIX_LIMIT)
    \/ ULeq(s.world_x + s.w - PIX_LIMIT, map_gauge_marker_left(s) + MARKER_W)
    \/ ULeq(map_gauge_marker_top(s), s.world_y + PIX_LIMIT)
    \/ ULeq(s.world_x + s.h - PIX_LIMIT, map_gauge_marker_top(s) + MARKER_H)

map_gauge_follow_marker(self) ==
    ByValue(self, LAMBDA s :
    LET i  == SDL_IntersectRect(map_gauge_viewport(s), map_gauge_marker_worldbox(s),
                                s.marker_src)
        s1 == [s EXCEPT !.marker_src = i.rect, !.follows = @ + 1]
    IN  IF ~i.hit THEN map_gauge_center_on_marker(s1, TRUE)
        ELSE IF FollowEdgeTest(s1) THEN map_gauge_center_on_marker(s1, TRUE)
        ELSE [s1 EXCEPT !.ret = TRUE])

\* mutant of TimeoutElapsed: the clock is not taken relative to the last manipulation
TimeoutElapsed_absolute(s, t) == ULess(MANIPULATE_TIMEOUT, t)

\* SDL_GetTicks() - self->last_manipulation > MANIPULATE_TIMEOUT (Uint32)
TimeoutElapsed(s, t) == ULess(MANIPULATE_TIMEOUT, t - s.last_manipulation)

\* mutant of map_gauge_set_marker_position: the test of line 209 is missing, the
\* marker is stored and followed on every call
map_gauge_set_marker_position_no_coalescing(self, geo, t) ==
    ByValue(self, LAMBDA s :
    LET s1 == IF s.roaming /\ TimeoutElapsed(s, t)
              THEN map_gauge_center_on_marker([s EXCEPT !.roaming = FALSE], TRUE)
              ELSE s
        new == map_math_geo_to_pixel(geo, s1.level)
        s2 == [s1 EXCEPT !.marker_x = new[1], !.marker_y = new[2]]
        s3 == IF ~s2.roaming THEN map_gauge_follow_marker(s2) ELSE s2
    IN  [s3 EXCEPT !.dirty = TRUE, !.ret = TRUE])

map_gauge_set_marker_position(self, geo, t) ==
    ByValue(self, LAMBDA s :
    LET s1 == IF s.roaming /\ TimeoutElapsed(s, t)
              THEN map_gauge_center_on_marker([s EXCEPT !.roaming = FALSE], TRUE)
              ELSE s
        new == map_math_geo_to_pixel(geo, s1.level)
    IN  IF new[1] # s1.marker_x \/ new[2] # s1.marker_y
        THEN LET s2 == [s1 EXCEPT !.marker_x = new[1], !.marker_y = new[2]]
                 s3 == IF ~s2.roaming THEN map_gauge_follow_marker(s2) ELSE s2
             IN  [s3 EXCEPT !.dirty = TRUE, !.ret = TRUE]
        ELSE [s1 EXCEPT !.ret = FALSE])

\* mutant of map_gauge_set_level: the test level != self->level is missing
map_gauge_set_level_no_same_level_test(s, l, t) ==
    IF l > MAP_GAUGE_MAX_LEVEL THEN [s EXCEPT !.ret = FALSE]
    ELSE LET vgeo == map_math_pixel_to_geo(s.world_x, s.world_y, s.level)
             new  == map_math_geo_to_pixel(vgeo, l)
             mgeo == map_math_pixel_to_geo(s.marker_x, s.marker_y, s.level)
             s1   == map_gauge_set_viewport([s EXCEPT !.level = l], new[1], new[2], FALSE)
             s2   == map_gauge_set_marker_position(s1, mgeo, t)
         IN  [s2 EXCEPT !.ret = TRUE]

map_gauge_set_level(s, l, t) ==
    IF l > MAP_GAUGE_MAX_LEVEL THEN [s EXCEPT !.ret = FALSE]
    ELSE IF l # s.level
    THEN LET vgeo == map_math_pixel_to_geo(s.world_x, s.world_y, s.level)
             new  == map_math_geo_to_pixel(vgeo, l)
             mgeo == map_math_pixel_to_geo(s.marker_x, s.marker_y, s.level)
             s1   == map_gauge_set_viewport([s EXCEPT !.level = l], new[1], new[2], FALSE)
             s2   == map_gauge_set_marker_position(s1, mgeo, t)
         IN  [s2 EXCEPT !.ret = TRUE]
    ELSE [s EXCEPT !.ret = TRUE]

\* misc.h clampf()
clampf(x, lo, hi) == IF x < lo THEN lo ELSE IF x > hi THEN hi ELSE x

\* mutant of map_gauge_set_marker_heading: the argument is stored unclamped
map_gauge_set_marker_heading_no_clamp(s, heading) ==
    IF heading # s.marker_heading
    THEN [s EXCEPT !.marker_heading = heading, !.dirty = TRUE, !.ret = TRUE]
    ELSE [s EXCEPT !.ret = FALSE]

map_gauge_set_marker_heading(s, heading) ==
    LET hd == clampf(heading, 0, 360)
    IN  IF hd # s.marker_heading
        THEN [s EXCEPT !.marker_heading = hd, !.dirty = TRUE, !.ret = TRUE]
        ELSE [s EXCEPT !.ret = FALSE]

\* mutant of map_gauge_manipulate_viewport: the timestamp is recorded only when the
\* viewport moved
map_gauge_manipulate_viewport_stamp_if_moved(s, dx, dy, animated, t) ==
    LET r == map_gauge_set_viewport([s EXCEPT !.roaming = TRUE],
                                    s.world_x + dx, s.world_y + dy, animated)
    IN  IF r.ret THEN [r EXCEPT !.last_manipulation = t] ELSE r

map_gauge_manipulate_viewport(s, dx, dy, animated, t) ==
    LET s1 == [s EXCEPT !.last_manipulation = t, !.roaming = TRUE]
    IN  map_gauge_set_viewport(s1, s1.world_x + dx, s1.world_y + dy, animated)

(* ------------------------------------------------------------------ *)
(* Tile providers (map-tile-provider): one bounded cache per source    *)
(* ------------------------------------------------------------------ *)
Providers == 1 .. NTILE_PROVIDERS
NoLayer == <<>>
Layer(p, key) == <<p, key>>
SeqRange(q) == {q[i] : i \in DOMAIN q}
SeqWithout(q, e) == SelectSeq(q, LAMBDA z : z # e)

\* map_gauge_init, lines 92-98 and 104/109/114: the capacity given to each provider
CacheCapacity(w, h) ==
    LET twidth == w \div TILE_SIZE
        cache_tiles == (Max(twidth, 1) * Max(twidth, 1)) * 4
    IN  cache_tiles * 2

\* The frame state threaded through an update: patch list, caches, reference counts
\* and the requests made (history).
Frame ==
    [patches |-> patches, cache |-> cache, refcnt |-> refcnt, pending |-> pending,
     requests |-> <<>>]

\* requestTile(level, x, y) on provider p: a cached tile is returned (and becomes
\* the most recently used); a miss returns "not ready" and starts a fetch, unless
\* one is under way or the source has no such tile.
map_tile_provider_get_tile(f, p, key) ==
    LET f1 == [f EXCEPT !.requests = Append(@, Layer(p, key))]
    IN  IF key \in SeqRange(f.cache[p])
        THEN [frame |-> [f1 EXCEPT !.cache[p] = Append(SeqWithout(@, key), key)],
              layer |-> Layer(p, key)]
        ELSE [frame |-> IF key \in SeqRange(f.pending[p]) \/ key \notin source[p] THEN f1
                        ELSE [f1 EXCEPT !.pending[p] = Append(@, key)],
              layer |-> NoLayer]

generic_layer_ref(f, layer) ==
    IF layer \in DOMAIN f.refcnt THEN [f EXCEPT !.refcnt[layer] = @ + 1] ELSE f

generic_layer_unref(f, layer) ==
    IF layer \in DOMAIN f.refcnt THEN [f EXCEPT !.refcnt[layer] = @ - 1] ELSE f

\* Insertion of a fetched tile: past capacity the least recently used entry with a
\* zero reference count is evicted; if there is none the capacity is exceeded.
Evictable(c, rc, p) == {i \in DOMAIN c : rc[Layer(p, c[i])] = 0}

CacheVictim(c, rc, p, capacity) ==
    IF Len(c) >= capacity /\ Evictable(c, rc, p) # {}
    THEN {c[CHOOSE i \in Evictable(c, rc, p) : \A j \in Evictable(c, rc, p) : i <= j]}
    ELSE {}

map_tile_cache_add(f, p, key, capacity) ==
    LET victim == CacheVictim(f.cache[p], f.refcnt, p, capacity)
        kept   == SelectSeq(f.cache[p], LAMBDA z : z \notin victim)
        alive  == (DOMAIN f.refcnt \ {Layer(p, v) : v \in victim}) \cup {Layer(p, key)}
    IN  [f EXCEPT !.cache[p] = Append(kept, key),
                  !.refcnt = [l \in alive |-> IF l = Layer(p, key) THEN 0 ELSE f.refcnt[l]]]

(* ------------------------------------------------------------------ *)
(* map_gauge_update_state                                              *)
(* ------------------------------------------------------------------ *)
\* mutant of TileSourceChain: the loop lacks its break, so every provider is queried
\* and the last hit is kept
RECURSIVE TileSourceChain_no_break(_, _, _)
TileSourceChain_no_break(f, key, p) ==
    IF p > NTILE_PROVIDERS THEN [frame |-> f, layer |-> NoLayer]
    ELSE LET r    == map_tile_provider_get_tile(f, p, key)
             rest == TileSourceChain_no_break(r.frame, key, p + 1)
         IN  IF rest.layer # NoLayer THEN rest
             ELSE [frame |-> rest.frame, layer |-> r.layer]

\* lines 430-437: the providers are queried in index order up to the first hit
RECURSIVE TileSourceChain(_, _, _)
TileSourceChain(f, key, p) ==
    IF p > NTILE_PROVIDERS THEN [frame |-> f, layer |-> NoLayer]
    ELSE LET r == map_tile_provider_get_tile(f, p, key)
         IN  IF r.layer # NoLayer THEN r ELSE TileSourceChain(r.frame, key, p + 1)

\* mutant of MakePatch: dst is left in world coordinates (lines 459-460 missing)
MakePatch_dst_in_world(s, tilex, tiley, layer) ==
    LET tile == Rect(TILE_SIZE * tilex, TILE_SIZE * tiley, TILE_SIZE, TILE_SIZE)
        i    == SDL_IntersectRect(map_gauge_viewport(s), tile, ZeroRect).rect
    IN  [src |-> Rect(i.x - tile.x, i.y - tile.y, i.w, i.h),
         dst |-> Rect(i.x, i.y, i.w, i.h),
         layer |-> layer]

\* mutant of MakePatch: src is left in world coordinates (lines 456-457 missing)
MakePatch_src_in_world(s, tilex, tiley, layer) ==
    LET tile == Rect(TILE_SIZE * tilex, TILE_SIZE * tiley, TILE_SIZE, TILE_SIZE)
        i    == SDL_IntersectRect(map_gauge_viewport(s), tile, ZeroRect).rect
    IN  [src |-> Rect(i.x, i.y, i.w, i.h),
         dst |-> Rect(i.x - s.world_x, i.y - s.world_y, i.w, i.h),
         layer |-> layer]

\* lines 443-464: the patch of one tile that some provider supplied
MakePatch(s, tilex, tiley, layer) ==
    LET tile == Rect(TILE_SIZE * tilex, TILE_SIZE * tiley, TILE_SIZE, TILE_SIZE)
        i    == SDL_IntersectRect(map_gauge_viewport(s), tile, ZeroRect).rect
    IN  [src |-> Rect(i.x - tile.x, i.y - tile.y, i.w, i.h),
         dst |-> Rect(i.x - s.world_x, i.y - s.world_y, i.w, i.h),
         layer |-> layer]

\* mutant of UpdateTile: the patch takes no reference (line 463 missing)
UpdateTile_no_ref(s, f, tilex, tiley) ==
    LET r == TileSourceChain(f, <<s.level, tilex, tiley>>, 1)
    IN  IF r.layer = NoLayer THEN r.frame
        ELSE [r.frame EXCEPT !.patches = Append(@, MakePatch(s, tilex, tiley, r.layer))]

\* lines 428-466: the body of the two tile loops for one tile
UpdateTile(s, f, tilex, tiley) ==
    LET r == TileSourceChain(f, <<s.level, tilex, tiley>>, 1)
    IN  IF r.layer = NoLayer THEN r.frame
        ELSE generic_layer_ref(
                 [r.frame EXCEPT !.patches = Append(@, MakePatch(s, tilex, tiley, r.layer))],
                 r.layer)

\* mutant of UpdateLoop: a tile that no provider supplies ends the loops (break
\* for the continue of line 440)
RECURSIVE UpdateLoop_stop_at_miss(_, _, _, _, _)
UpdateLoop_stop_at_miss(s, f, tl, br, k) ==
    LET xs == br[1] - tl[1] + 1
        ys == br[2] - tl[2] + 1
        f1 == UpdateTile(s, f, tl[1] + (k % xs), tl[2] + (k \div xs))
    IN  IF xs <= 0 \/ ys <= 0 \/ k >= xs * ys THEN f
        ELSE IF Len(f1.patches) = Len(f.patches) THEN f1
        ELSE UpdateLoop_stop_at_miss(s, f1, tl, br, k + 1)

\* the tiles tl..br in the order of the loops (tiley outer, tilex inner)
RECURSIVE UpdateLoop(_, _, _, _, _)
UpdateLoop(s, f, tl, br, k) ==
    LET xs == br[1] - tl[1] + 1
        ys == br[2] - tl[2] + 1
    IN  IF xs <= 0 \/ ys <= 0 \/ k >= xs * ys THEN f
        ELSE UpdateLoop(s, UpdateTile(s, f, tl[1] + (k % xs), tl[2] + (k \div xs)),
                        tl, br, k + 1)

\* mutant of ReleasePatches: the list is emptied without releasing its references
ReleasePatches_no_unref(f, k) == [f EXCEPT !.patches = <<>>]

\* lines 422-424: the previous frame's references are released
RECURSIVE ReleasePatches(_, _)
ReleasePatches(f, k) ==
    IF k > Len(f.patches) THEN [f EXCEPT !.patches = <<>>]
    ELSE ReleasePatches(generic_layer_unref(f, f.patches[k].layer), k + 1)

\* mutant of BottomRightTile: the last tile is taken from the gauge's size in
\* whole tiles, whatever the offset of the origin inside its tile
BottomRightTile_whole_tiles(s) ==
    <<UDivTile(s.world_x) + (s.w \div TILE_SIZE) - 1,
      UDivTile(s.world_y) + (s.h \div TILE_SIZE) - 1>>

\* lines 395-401
TopLeftTile(s) == <<UDivTile(s.world_x), UDivTile(s.world_y)>>
BottomRightTile(s) == <<UDivTile(s.world_x + s.w - 1), UDivTile(s.world_y + s.h - 1)>>

\* lines 403-405, when no subtraction wraps
TileSpan(s) ==
    (BottomRightTile(s)[1] - TopLeftTile(s)[1] + 1)
        * (BottomRightTile(s)[2] - TopLeftTile(s)[2] + 1)

\* The viewport straddles the uint32_t wrap on some axis (world_x above 2^31 and
\* world_x + w - 1 below): br - tl + 1 wraps in uintf16_t and no tile loop runs.
SpanWraps(s) ==
    \/ BottomRightTile(s)[1] < TopLeftTile(s)[1]
    \/ BottomRightTile(s)[2] < TopLeftTile(s)[2]

\* lines 468-484: the marker patch
MarkerPatch(s) ==
    LET i == SDL_IntersectRect(map_gauge_viewport(s), map_gauge_marker_worldbox(s),
                               s.marker_src)
    IN  IF i.hit
        THEN [src |-> Rect(i.rect.x - map_gauge_marker_left(s),
                           i.rect.y - map_gauge_marker_top(s), i.rect.w, i.rect.h),
              dst |-> Rect(i.rect.x - s.world_x, i.rect.y - s.world_y,
                           i.rect.w, i.rect.h)]
        ELSE [src |-> NoRect, dst |-> NoRect]

(* ------------------------------------------------------------------ *)
(* Telemetry decoder (xp-data-source.c)                                *)
(* ------------------------------------------------------------------ *)
\* initialize_lookup_table: the row ids that have a parser
Registered == {3, 4, 17, 18, 20, 37, 43, 45, 47, 48, 49, 50, 51, 54, 62}

\* A datagram is described by what the decoder looks at: its length, how many of
\* its first bytes agree with "DATA*", the row id of its even and of its odd rows,
\* and one value standing for the eight floats of each row.
NoPacket == [len |-> 0 - 1, match |-> 0, ids |-> <<0, 0>>, val |-> 0]
RowId(pkt, i) == IF i % 2 = 0 THEN pkt.ids[1] ELSE pkt.ids[2]

\* Each parser writes fields of its own; decoded[id] is the value last given to
\* the parser of row id, 0 before any.  buffer_access: the index ranges <<lo, hi>>
\* of buffer[] the last frame read or wrote; table_access: the lookup_table indices
\* it used; parsed: the row ids whose parser it ran.
XpInit ==
    [decoded |-> [id \in Registered |-> 0], has_fix |-> FALSE,
     buffer_access |-> {}, table_access |-> {}, parsed |-> {},
     prev |-> [id \in Registered |-> 0], packet |-> NoPacket, crashed |-> FALSE]

\* line 174: row_id >= 0 && row_id <= 62 && lookup_table[row_id] != NULL
RowAccepted(row_id) == row_id >= 0 /\ row_id <= MAX_ROW_ID /\ row_id \in Registered

\* lines 166-180: rows i .. num_rows - 1
RECURSIVE XpRows(_, _, _, _)
XpRows(x, pkt, i, num_rows) ==
    IF i >= num_rows THEN x
    ELSE LET row_id == RowId(pkt, i)
             at     == HEADER_SIZE + i * ROW_SIZE
             x1     == [x EXCEPT !.buffer_access =
                                     @ \cup {<<at, at + 3>>, <<at + 4, at + 4 + 31>>},
                                 !.table_access =
                                     IF row_id >= 0 /\ row_id <= MAX_ROW_ID
                                     THEN @ \cup {row_id} ELSE @]
             x2     == IF RowAccepted(row_id)
                       THEN [x1 EXCEPT !.decoded[row_id] = pkt.val,
                                       !.parsed = @ \cup {row_id}]
                       ELSE x1
         IN  XpRows(x2, pkt, i + 1, num_rows)

\* xp_data_source_frame after recvfrom returned bytes_received, with pkt in buffer
xp_data_source_frame(x0, bytes_received, pkt) ==
    LET x == [x0 EXCEPT !.buffer_access = {}, !.table_access = {}, !.parsed = {},
                        !.prev = x0.decoded, !.packet = pkt]
    IN  IF bytes_received < 0 \/ bytes_received > BUFFER_SIZE THEN x
        ELSE LET \* line 161: the terminator
                 x1 == [x EXCEPT !.buffer_access = {<<bytes_received, bytes_received>>}]
                 \* line 164: strncmp reads up to the first differing byte
                 x2 == [x1 EXCEPT !.buffer_access =
                                      @ \cup {<<0, Min(pkt.match, HEADER_SIZE - 1)>>}]
             IN  IF pkt.match = HEADER_SIZE
                 THEN [XpRows(x2, pkt, 0, (bytes_received - HEADER_SIZE) \div ROW_SIZE)
                          EXCEPT !.has_fix = TRUE]
                 ELSE x2

(* ------------------------------------------------------------------ *)
(* Operations                                                          *)
(* ------------------------------------------------------------------ *)
Call(name, args) == [name |-> name, args |-> args]

\* the controller fields after a handler returned record r
Commit(r) ==
    /\ level' = r.level
    /\ world_x' = r.world_x
    /\ world_y' = r.world_y
    /\ marker_x' = r.marker_x
    /\ marker_y' = r.marker_y
    /\ marker_heading' = r.marker_heading
    /\ roaming' = r.roaming
    /\ last_manipulation' = r.last_manipulation
    /\ dirty' = r.dirty
    /\ marker_src' = r.marker_src
    /\ ret' = r.ret
    /\ centers' = r.centers
    /\ UNCHANGED <<xp, gw, gh, source, now>>
    /\ UNCHANGED framevars

SetLevel(l) ==
    /\ op' = Call("set_level", <<l>>)
    /\ Commit(map_gauge_set_level(Self, l, now))

SetMarkerPosition(geo) ==
    /\ op' = Call("set_marker_position", <<>>)
    /\ Commit(map_gauge_set_marker_position(Self, geo, now))

SetMarkerHeading(hd) ==
    /\ op' = Call("set_marker_heading", <<>>)
    /\ Commit(map_gauge_set_marker_heading(Self, hd))

ManipulateViewport(dx, dy, animated) ==
    /\ op' = Call("manipulate_viewport", <<>>)
    /\ Commit(map_gauge_manipulate_viewport(Self, dx, dy, animated, now))

CenterOnMarker(animated) ==
    /\ op' = Call("center_on_marker", <<>>)
    /\ Commit(map_gauge_center_on_marker(Self, animated))

FollowMarker ==
    /\ op' = Call("follow_marker", <<>>)
    /\ Commit(map_gauge_follow_marker(Self))

MoveViewport(dx, dy, animated) ==
    /\ op' = Call("move_viewport", <<>>)
    /\ Commit(map_gauge_move_viewport(Self, dx, dy, animated))

SetViewport(x, y, animated) ==
    /\ op' = Call("set_viewport", <<animated>>)
    /\ Commit(map_gauge_set_viewport(Self, x, y, animated))

\* mutant of GrowPatches: a failed realloc leaves the new capacity recorded
\* (line 416 missing)
GrowPatches_no_restore(s, ap, allocOk) ==
    LET span == IF SpanWraps(s) THEN 0 - 1 ELSE TileSpan(s)
    IN  IF ULess(ap, span) THEN [apatches |-> span, failed |-> ~allocOk]
        ELSE [apatches |-> ap, failed |-> FALSE]

\* mutant of GrowPatches: the array grows to the tiles of one row only
\* (x_tile_span for tile_span at lines 409-413)
GrowPatches_row_only(s, ap, allocOk) ==
    LET span == IF SpanWraps(s) THEN 0 - 1
                ELSE BottomRightTile(s)[1] - TopLeftTile(s)[1] + 1
    IN  IF ULess(ap, span)
        THEN IF allocOk THEN [apatches |-> span, failed |-> FALSE]
             ELSE [apatches |-> ap, failed |-> TRUE]
        ELSE [apatches |-> ap, failed |-> FALSE]

\* lines 409-420: the patch array grows to the tile span when it is too small;
\* allocOk is whether realloc succeeds.  (A span that wraps is a huge number,
\* written 0 - 1.)
GrowPatches(s, ap, allocOk) ==
    LET span == IF SpanWraps(s) THEN 0 - 1 ELSE TileSpan(s)
    IN  IF ULess(ap, span)
        THEN IF allocOk THEN [apatches |-> span, failed |-> FALSE]
             ELSE [apatches |-> ap, failed |-> TRUE]
        ELSE [apatches |-> ap, failed |-> FALSE]

\* map_gauge_update_state.  allocOk: whether realloc succeeds, should it be called.
Update(allocOk) ==
    LET s    == Self
        g    == GrowPatches(s, apatches, allocOk)
        f    == UpdateLoop(s, ReleasePatches(Frame, 1), TopLeftTile(s),
                           BottomRightTile(s), 0)
        m    == MarkerPatch(s)
    IN  /\ op' = Call("update", <<>>)
        /\ ret' = FALSE
        /\ centers' = 0
        /\ UNCHANGED <<xp, gw, gh, source, now, level, world_x, world_y, marker_x, marker_y,
                       marker_heading, roaming, last_manipulation, dirty>>
        /\ apatches' = g.apatches
        /\ IF g.failed
           THEN /\ trace' = [requests |-> <<>>, alloc_failed |-> TRUE, built |-> FALSE,
                             evicted |-> {}]
                /\ UNCHANGED <<marker_src, marker_dst, patches, cache, refcnt, pending>>
           ELSE /\ patches' = f.patches
                /\ cache' = f.cache
                /\ refcnt' = f.refcnt
                /\ pending' = f.pending
                /\ marker_src' = m.src
                /\ marker_dst' = m.dst
                /\ trace' = [requests |-> f.requests, alloc_failed |-> FALSE,
                             built |-> TRUE, evicted |-> {}]

\* map_gauge_render draws the patches and the marker; the gauge is then clean
Render ==
    /\ op' = Call("render", <<>>)
    /\ ret' = FALSE
    /\ centers' = 0
    /\ dirty' = FALSE
    /\ UNCHANGED <<xp, gw, gh, source, now, level, world_x, world_y, marker_x, marker_y,
                   marker_heading, roaming, last_manipulation, marker_src>>
    /\ UNCHANGED framevars

\* map_gauge_dispose: the patches' references are released, the patch array and
\* the providers (with their caches and fetches) are freed.  refcnt keeps counting
\* the references the gauge still holds on each image.
Dispose ==
    /\ op.name # "dispose"
    /\ LET f == ReleasePatches(Frame, 1)
       IN  /\ patches' = f.patches
           /\ refcnt' = f.refcnt
    /\ cache' = [p \in Providers |-> <<>>]
    /\ pending' = [p \in Providers |-> <<>>]
    /\ op' = Call("dispose", <<>>)
    /\ ret' = FALSE
    /\ centers' = 0
    /\ UNCHANGED ctlvars
    /\ UNCHANGED <<xp, gw, gh, source, now, marker_dst, apatches, trace>>

\* The oldest fetch of provider p completes: the tile enters the cache.
FetchComplete(p) ==
    /\ pending[p] # <<>>
    /\ LET key == Head(pending[p])
           f   == map_tile_cache_add(Frame, p, key, CacheCapacity(gw, gh))
           out == {[layer |-> l, refs |-> refcnt[l]] : l \in DOMAIN refcnt \ DOMAIN f.refcnt}
       IN  /\ pending' = [pending EXCEPT ![p] = Tail(@)]
           /\ cache' = f.cache
           /\ refcnt' = f.refcnt
           /\ trace' = [trace EXCEPT !.evicted = out]
    /\ op' = Call("fetch_complete", <<>>)
    /\ ret' = FALSE
    /\ centers' = 0
    /\ UNCHANGED ctlvars
    /\ UNCHANGED <<xp, gw, gh, source, now, marker_dst, patches, apatches>>

\* SDL_GetTicks() is monotonic; t is the next instant at which it is read
Tick(t) ==
    /\ t > now
    /\ now' = t
    /\ op' = Call("tick", <<>>)
    /\ ret' = FALSE
    /\ centers' = 0
    /\ UNCHANGED ctlvars
    /\ UNCHANGED framevars
    /\ UNCHANGED <<xp, gw, gh, source>>

\* One call of xp_data_source_frame.  recvfrom returns n: an error, or the length
\* of the datagram pkt now in the buffer.  Writing buffer[BUFFER_SIZE] is outside
\* the array: the frame then either goes on or the program dies.
XpFrame(n, pkt, dies) ==
    /\ ~xp.crashed
    /\ pkt.len = n
    /\ dies => n = BUFFER_SIZE
    /\ xp' = [xp_data_source_frame(xp, n, pkt) EXCEPT !.crashed = dies]
    /\ op' = Call("xp_frame", <<>>)
    /\ ret' = TRUE
    /\ centers' = 0
    /\ UNCHANGED ctlvars
    /\ UNCHANGED framevars
    /\ UNCHANGED <<gw, gh, source, now>>

(* ------------------------------------------------------------------ *)
(* Initial state: calloc + map_gauge_init(w, h)                        *)
(* ------------------------------------------------------------------ *)
InitGauge(sizes, sources) ==
    /\ \E sz \in sizes : gw = sz[1] /\ gh = sz[2]
    /\ level = 0
    /\ world_x = 0
    /\ world_y = 0
    /\ marker_x = 0
    /\ marker_y = 0
    /\ marker_heading = 0
    /\ roaming = FALSE
    /\ last_manipulation = 0
    /\ dirty = FALSE
    /\ marker_src = ZeroRect
    /\ marker_dst = ZeroRect
    /\ patches = <<>>
    /\ apatches = 0
    /\ cache = [p \in Providers |-> <<>>]
    /\ refcnt = [l \in {} |-> 0]
    /\ pending = [p \in Providers |-> <<>>]
    /\ source \in sources
    /\ now = 0
    /\ op = Call("init", <<>>)
    /\ xp = XpInit
    /\ ret = FALSE
    /\ centers = 0
    /\ trace = [requests |-> <<>>, alloc_failed |-> FALSE, built |-> FALSE, evicted |-> {}]

(* ------------------------------------------------------------------ *)
(* Spec: the viewport controller driven by its client                  *)
(* ------------------------------------------------------------------ *)
UINT32_MAX == 0 - 1

\* how many instants after the roaming timeout the clock is observed at
MaxLate == 1

GaugeSizes == {<<120, 80>>}
LevelArgs == {1, 16, 255}
ViewportArgs == {<<100, 5>>}
MoveArgs == {<<-300, 0>>, <<300, 0>>}
Instants == {0, MANIPULATE_TIMEOUT} \cup {MANIPULATE_TIMEOUT + k : k \in 1 .. MaxLate}
\* marker positions, given by the level-1 pixel they project to
GeoPoints ==
    {<<p[1] * GeoScale(1), p[2] * GeoScale(1)>> : p \in {<<300, 250>>, <<300, 260>>}}
NoSource == [p \in Providers |-> {}]

Init == InitGauge(GaugeSizes, {NoSource})

Next ==
    \/ \E l \in LevelArgs : SetLevel(l)
    \/ \E geo \in GeoPoints : SetMarkerPosition(geo)
    \/ \E d \in MoveArgs : ManipulateViewport(d[1], d[2], FALSE)
    \/ \E a \in BOOLEAN : CenterOnMarker(a)
    \/ FollowMarker
    \/ \E d \in MoveArgs : MoveViewport(d[1], d[2], FALSE)
    \/ \E v \in ViewportArgs, a \in BOOLEAN : SetViewport(v[1], v[2], a)
    \/ \E t \in Instants : Tick(t)

Spec == Init /\ [][Next]_vars

(* ------------------------------------------------------------------ *)
(* SpecWide: a gauge as wide as the level-0 world (256 px)             *)
(* ------------------------------------------------------------------ *)
WideGaugeSizes == {<<256, 200>>}
WideViewportArgs == {<<0, 0>>, <<5, 5>>, <<100, 5>>}

InitWide == InitGauge(WideGaugeSizes, {NoSource})

NextWide ==
    \/ \E l \in LevelArgs : SetLevel(l)
    \/ \E geo \in GeoPoints : SetMarkerPosition(geo)
    \/ \E a \in BOOLEAN : CenterOnMarker(a)
    \/ FollowMarker
    \/ \E v \in WideViewportArgs : SetViewport(v[1], v[2], FALSE)
    \/ \E t \in Instants : Tick(t)

SpecWide == InitWide /\ [][NextWide]_vars

(* ------------------------------------------------------------------ *)
(* SpecFrame: every operation of the gauge, frames included            *)
(* ------------------------------------------------------------------ *)
\* all tiles of the levels up to l
TilesUpTo(l) ==
    UNION {{<<k, x, y>> : x \in 0 .. Pow2(k) - 1, y \in 0 .. Pow2(k) - 1} : k \in 0 .. l}

FrameLevelArgs == {1, 16}
\* one marker position, given by the level-1 pixel it projects to
FrameGeoPoints == {<<40 * GeoScale(1), 40 * GeoScale(1)>>}
FrameHeadingArgs == {400}
FrameViewportArgs == {<<0, 0>>}
FrameMoveArgs == {<<300, 300>>}
FrameInstants == {MANIPULATE_TIMEOUT + 1}
FrameSources == {[p \in Providers |-> IF p = 1 THEN {} ELSE {<<0, 0, 0>>}]}

InitFrame == InitGauge(GaugeSizes, FrameSources)

NextFrame ==
    \/ \E l \in FrameLevelArgs : SetLevel(l)
    \/ \E geo \in FrameGeoPoints : SetMarkerPosition(geo)
    \/ \E hd \in FrameHeadingArgs : SetMarkerHeading(hd)
    \/ \E d \in FrameMoveArgs : ManipulateViewport(d[1], d[2], FALSE)
    \/ CenterOnMarker(TRUE)
    \/ FollowMarker
    \/ \E d \in FrameMoveArgs : MoveViewport(d[1], d[2], FALSE)
    \/ \E v \in FrameViewportArgs : SetViewport(v[1], v[2], FALSE)
    \/ \E ok \in BOOLEAN : Update(ok)
    \/ Render
    \/ \E p \in Providers : FetchComplete(p)
    \/ \E t \in FrameInstants : Tick(t)

SpecFrame == InitFrame /\ [][NextFrame]_vars

(* ------------------------------------------------------------------ *)
(* SpecExample: a 512x512 gauge at level 5, tiles arriving one by one  *)
(* ------------------------------------------------------------------ *)
ExampleGaugeSizes == {<<512, 512>>}
ExampleLevelArgs == {5}
ExampleViewportArgs == {<<100, 100>>}
\* the first source holds every other tile, the second all tiles around the origin
ExampleSources ==
    {[p \in Providers |->
        {<<5, x, y>> : x \in 0 .. 2, y \in 0 .. 2} \ 
            (IF p = 1 THEN {<<5, x, y>> : x \in {1}, y \in 0 .. 2} ELSE {})]}

InitExample == InitGauge(ExampleGaugeSizes, ExampleSources)

NextExample ==
    \/ \E l \in ExampleLevelArgs : SetLevel(l)
    \/ \E v \in ExampleViewportArgs : SetViewport(v[1], v[2], FALSE)
    \/ \E ok \in BOOLEAN : Update(ok)
    \/ \E p \in Providers : FetchComplete(p)

SpecExample == InitExample /\ [][NextExample]_vars

(* ------------------------------------------------------------------ *)
(* SpecCache: a tall gauge (100x2100) whose frames hold more tiles     *)
(* than a provider's cache                                             *)
(* ------------------------------------------------------------------ *)
CacheGaugeSizes == {<<100, 2100>>}
CacheLevelArgs == {4}
CacheViewportArgs == {<<0, 0>>, <<0, 256>>}
CacheSources ==
    {[p \in Providers |-> IF p = 1 THEN {} ELSE {<<4, 0, y>> : y \in 0 .. 9}]}

InitCache == InitGauge(CacheGaugeSizes, CacheSources)

NextCache ==
    \/ \E l \in CacheLevelArgs : SetLevel(l)
    \/ \E v \in CacheViewportArgs : SetViewport(v[1], v[2], FALSE)
    \/ \E ok \in BOOLEAN : Update(ok)
    \/ \E p \in Providers : FetchComplete(p)

SpecCache == InitCache /\ [][NextCache]_vars

(* ------------------------------------------------------------------ *)
(* SpecTiles: the life of a small gauge over two overlapping sources,  *)
(* from construction to dispose                                        *)
(* ------------------------------------------------------------------ *)
TilesLevelArgs == {1}
TilesViewportArgs == {<<0, 0>>, <<200, 200>>}
\* the first source lacks two tiles of level 1, the second one; none has <<1, 1, 0>>
TilesSources ==
    {[p \in Providers |->
        IF p = 1 THEN {<<1, 0, 0>>, <<1, 1, 1>>}
        ELSE {<<0, 0, 0>>, <<1, 0, 0>>, <<1, 0, 1>>, <<1, 1, 1>>}]}

\* no operation is called on a disposed gauge
Alive == op.name # "dispose"

InitTiles == InitGauge(GaugeSizes, TilesSources)

NextTiles ==
    \/ \E l \in TilesLevelArgs : Alive /\ SetLevel(l)
    \/ \E v \in TilesViewportArgs : Alive /\ SetViewport(v[1], v[2], FALSE)
    \/ \E ok \in BOOLEAN : Alive /\ Update(ok)
    \/ \E p \in Providers : Alive /\ FetchComplete(p)
    \/ Dispose

SpecTiles == InitTiles /\ [][NextTiles]_vars

(* ------------------------------------------------------------------ *)
(* SpecBounds: gauges smaller than and as wide as the level-0 world,    *)
(* frames built near the origin, at a junction of four tiles and       *)
(* around the marker                                                   *)
(* ------------------------------------------------------------------ *)
BoundsGaugeSizes == {<<120, 80>>, <<256, 200>>}
BoundsLevelArgs == {1}
BoundsViewportArgs == {<<5, 5>>, <<200, 200>>}
\* the second source has every tile of levels 0 and 1
BoundsSources == {[p \in Providers |-> IF p = 1 THEN {} ELSE TilesUpTo(1)]}

InitBounds == InitGauge(BoundsGaugeSizes, BoundsSources)

NextBounds ==
    \/ \E l \in BoundsLevelArgs : SetLevel(l)
    \/ \E v \in BoundsViewportArgs : SetViewport(v[1], v[2], FALSE)
    \/ CenterOnMarker(FALSE)
    \/ \E ok \in BOOLEAN : Update(ok)
    \/ \E p \in Providers : FetchComplete(p)

SpecBounds == InitBounds /\ [][NextBounds]_vars

(* ------------------------------------------------------------------ *)
(* SpecDecoder: datagrams of every kind given to the telemetry decoder *)
(* ------------------------------------------------------------------ *)
\* recvfrom results: an error, and lengths around the header, one and two rows,
\* and the buffer size
RecvResults == {0 - 1, 0, 4, 5, 77, 1023, BUFFER_SIZE}
\* row ids of the even and odd rows: registered, negative, just above the largest
\* accepted id, and beyond the table
RowIdPairs == {<<3, 63>>, <<62, 0 - 1>>, <<100, 3>>, <<5, 62>>}
RowValues == {1, 2}
Packets(n) ==
    IF n < 0 THEN {NoPacket}
    ELSE {[len |-> n, match |-> m, ids |-> ids, val |-> v] :
            m \in {0, Min(n, 3), Min(n, HEADER_SIZE)}, ids \in RowIdPairs,
            v \in RowValues}

InitDecoder == InitGauge(GaugeSizes, {NoSource})

NextDecoder ==
    \E n \in RecvResults, dies \in BOOLEAN : \E pkt \in Packets(n) : XpFrame(n, pkt, dies)

SpecDecoder == InitDecoder /\ [][NextDecoder]_vars

(* ------------------------------------------------------------------ *)
(* SpecHeading: the marker's heading set to values in and out of range *)
(* ------------------------------------------------------------------ *)
HeadingArgs == {0 - 10, 0, 90, 359, 360, 400}

InitHeading == InitGauge(GaugeSizes, {NoSource})

NextHeading ==
    \/ \E hd \in HeadingArgs : SetMarkerHeading(hd)
    \/ \E v \in ViewportArgs : SetViewport(v[1], v[2], FALSE)
    \/ Render
    \/ \E t \in Instants : Tick(t)

SpecHeading == InitHeading /\ [][NextHeading]_vars

(* ------------------------------------------------------------------ *)
(* SpecLive: manipulations that stop, a clock that keeps advancing and *)
(* marker updates that keep coming                                     *)
(* ------------------------------------------------------------------ *)
\* the instants at which the clock is read; the user manipulates at the early ones
LiveInstants == {1500, 3000, 3000 + MANIPULATE_TIMEOUT + 1}
ManipulationInstants == {0, 1500}
LiveMoveArgs == {<<300, 0>>}

InitLive == InitGauge(GaugeSizes, {NoSource})

LiveManipulate ==
    \E d \in LiveMoveArgs : now \in ManipulationInstants /\ ManipulateViewport(d[1], d[2], FALSE)
LiveMarkerUpdate == \E geo \in GeoPoints : SetMarkerPosition(geo)
LiveTick == \E t \in LiveInstants : Tick(t)

NextLive ==
    \/ LiveManipulate
    \/ LiveMarkerUpdate
    \/ LiveTick

\* the data source keeps delivering positions and time passes
SpecLive ==
    /\ InitLive /\ [][NextLive]_vars
    /\ WF_vars(LiveMarkerUpdate)
    /\ WF_vars(LiveTick)

(* ------------------------------------------------------------------ *)
(* Claims                                                              *)
(* ------------------------------------------------------------------ *)
Abs(a) == IF a < 0 THEN -a ELSE a
Moved == marker_x' # marker_x \/ marker_y' # marker_y
WorldUnchanged == world_x' = world_x /\ world_y' = world_y

\* The bounding box of the marker at its new position lies inside the viewport
\* as it was before the call, more than PIX_LIMIT away from each of its edges.
ClearOfEdges ==
    /\ marker_x' - MARKER_W \div 2 > world_x + PIX_LIMIT
    /\ marker_x' - MARKER_W \div 2 + MARKER_W < world_x + gw - PIX_LIMIT
    /\ marker_y' - MARKER_H \div 2 > world_y + PIX_LIMIT
    /\ marker_y' - MARKER_H \div 2 + MARKER_H < world_y + gh - PIX_LIMIT

\* C1 (as claimed): while FOLLOWING, a setMarkerPosition call that moves the marker
\* leaves world_x/world_y unchanged if the marker's bounding box stays more than
\* 10 px inside every viewport edge, and calls centerOnMarker otherwise.
C1_FollowHysteresis ==
    [][(op'.name = "set_marker_position" /\ ~roaming /\ Moved)
        => /\ ClearOfEdges => WorldUnchanged
           /\ ~ClearOfEdges => centers' >= 1]_vars

Elapsed == now - last_manipulation

\* C2 (as claimed): a setMarkerPosition call made while ROAMING leaves the viewport
\* and the state alone when less than 2000 ms elapsed since the manipulation, and
\* switches to FOLLOWING with a recenter when 2000 ms or more elapsed ("exactly
\* one" recenter is read here as "at least one", the weaker statement).
C2_RoamingTimeout ==
    [][(op'.name = "set_marker_position" /\ roaming)
        => IF Elapsed < MANIPULATE_TIMEOUT
           THEN WorldUnchanged /\ roaming'
           ELSE ~roaming' /\ centers' >= 1]_vars

\* C3 (as claimed): world_x is in [0, sizeForLevel(level) - width] and world_y in
\* [0, sizeForLevel(level) - height] in every reachable state.
C3_ViewportClamped ==
    /\ 0 <= world_x /\ world_x <= map_math_size(level) - gw
    /\ 0 <= world_y /\ world_y <= map_math_size(level) - gh

AllUnchanged ==
    /\ UNCHANGED ctlvars
    /\ UNCHANGED framevars

\* C4: setLevel with a level above 15 returns failure and changes no field of the
\* controller; setLevel with the current level returns success and changes none.
C4_SetLevelRejects ==
    [][(op'.name = "set_level")
        => /\ (op'.args[1] > MAP_GAUGE_MAX_LEVEL) => (ret' = FALSE /\ AllUnchanged)
           /\ (op'.args[1] = level) => (ret' = TRUE /\ AllUnchanged)]_vars

\* C4 witness: an invalid level was refused while roaming with the timeout elapsed
C4_Witness ==
    /\ op.name = "set_level" /\ op.args[1] > MAP_GAUGE_MAX_LEVEL /\ ret = FALSE
    /\ roaming /\ Elapsed > MANIPULATE_TIMEOUT /\ level = 1

\* a world coordinate of level from, at level to
Rescale(v, from, to) ==
    IF to >= from THEN v * Pow2(to - from) ELSE v \div Pow2(from - to)

\* C5 (as claimed): after setLevel(L2), L2 valid and different from the level, the
\* origin is the old origin rescaled to L2 and the marker the old marker rescaled
\* (within one pixel).  Only calls whose rescaled origin is a valid origin of L2
\* are constrained, so that no clamping is held against the claim.
C5_AnchorPreserved ==
    [][(/\ op'.name = "set_level"
        /\ op'.args[1] <= MAP_GAUGE_MAX_LEVEL
        /\ op'.args[1] # level
        /\ Rescale(world_x, level, level') + 1 <= map_math_size(level') - 1 - gw
        /\ Rescale(world_y, level, level') + 1 <= map_math_size(level') - 1 - gh)
        => /\ Abs(world_x' - Rescale(world_x, level, level')) <= 1
           /\ Abs(world_y' - Rescale(world_y, level, level')) <= 1
           /\ Abs(marker_x' - Rescale(marker_x, level, level')) <= 1
           /\ Abs(marker_y' - Rescale(marker_y, level, level')) <= 1]_vars

InRange(v, lo, hi) == lo <= v /\ v <= hi

\* Neither the target the claim names (marker - half the gauge) nor the one the
\* code computes needs clamping at the current level.
NoClamping ==
    /\ InRange(marker_x - gw \div 2, 0, map_math_size(level) - 1 - gw)
    /\ InRange(marker_y - gh \div 2, 0, map_math_size(level) - 1 - gh)
    /\ InRange(marker_x - MARKER_W \div 2 - gw \div 2, 0, map_math_size(level) - 1 - gw)
    /\ InRange(marker_y - MARKER_H \div 2 - gh \div 2, 0, map_math_size(level) - 1 - gh)

\* C6 (as claimed): after centerOnMarker, when no clamping applies, the marker's
\* centre is at the viewport's centre, within one pixel.
C6_MarkerCentred ==
    [][(op'.name = "center_on_marker" /\ NoClamping)
        => /\ Abs((marker_x' - world_x') - gw \div 2) <= 1
           /\ Abs((marker_y' - world_y') - gh \div 2) <= 1]_vars

RoamOps == {"manipulate_viewport", "set_marker_position", "set_level"}

\* C7: the gauge starts FOLLOWING; roaming becomes TRUE only in manipulateViewport,
\* which always records the timestamp (also when the viewport did not move); it
\* becomes FALSE only in a marker-position update (setMarkerPosition, or the one
\* setLevel makes) while the timeout has elapsed; no other operation changes
\* roaming or last_manipulation.
C7_RoamStateMachine ==
    /\ ~roaming
    /\ [][/\ (roaming' /\ ~roaming) => op'.name = "manipulate_viewport"
          /\ (op'.name = "manipulate_viewport") => (roaming' /\ last_manipulation' = now)
          /\ (roaming /\ ~roaming')
                => (op'.name \in {"set_marker_position", "set_level"}
                    /\ Elapsed >= MANIPULATE_TIMEOUT)
          /\ (last_manipulation' # last_manipulation) => op'.name = "manipulate_viewport"
          /\ (op'.name \notin RoamOps) => UNCHANGED <<roaming, last_manipulation>>]_vars

\* C7 witness: a manipulation that could not move the viewport (it is clamped at
\* the far corner) still recorded its instant
C7_Witness ==
    /\ op.name = "manipulate_viewport" /\ ret = FALSE
    /\ roaming /\ now > MANIPULATE_TIMEOUT /\ last_manipulation = now

(* ---- frames ---- *)
RectArea(r) == r.w * r.h
RectInside(r, w, h) ==
    /\ r.w > 0 /\ r.h > 0
    /\ 0 <= r.x /\ r.x + r.w <= w
    /\ 0 <= r.y /\ r.y + r.h <= h
RectsOverlap(a, b) ==
    /\ a.x < b.x + b.w /\ b.x < a.x + a.w
    /\ a.y < b.y + b.h /\ b.y < a.y + a.h

RECURSIVE SumArea(_, _)
SumArea(ps, k) == IF k > Len(ps) THEN 0 ELSE RectArea(ps[k].dst) + SumArea(ps, k + 1)

DstInside == \A i \in DOMAIN patches : RectInside(patches[i].dst, gw, gh)
DstDisjoint ==
    \A i, j \in DOMAIN patches : i < j => ~RectsOverlap(patches[i].dst, patches[j].dst)
\* pairwise disjoint rectangles inside the gauge cover it iff their areas add up
DstCoverGauge == DstInside /\ DstDisjoint /\ SumArea(patches, 1) = gw * gh

\* the state is the one an update that rebuilt the patch list just left
Updated == op.name = "update" /\ trace.built
RequestedKeys == {trace.requests[i][2] : i \in DOMAIN trace.requests}
TileKeys(l, lo, hi) == {<<l, x, y>> : x \in lo .. hi, y \in lo .. hi}
\* every tile of the visible range was supplied by some provider
AllSupplied == Len(patches) = TileSpan(Self)

\* C8: after an update with the origin inside the clamp range, the patches'
\* destination rectangles lie inside {0,0,width,height} and do not overlap; when
\* every tile of the visible range was supplied they cover exactly that rectangle.
C8_PatchCoverage ==
    (Updated /\ C3_ViewportClamped)
        => /\ DstInside
           /\ DstDisjoint
           /\ AllSupplied => DstCoverGauge

\* C8 witness: a frame of 3x3 tiles, all supplied, some by each provider
C8_Witness ==
    /\ Updated /\ C3_ViewportClamped /\ AllSupplied /\ TileSpan(Self) = 9
    /\ \A p \in Providers : \E i \in DOMAIN patches : patches[i].layer[1] = p

ExampleFrame ==
    /\ Updated /\ gw = 512 /\ gh = 512 /\ level = 5 /\ world_x = 100 /\ world_y = 100

\* C9 (as claimed): the update of a 512x512 gauge at level 5 with origin (100,100)
\* requests exactly the 4 tiles x in [0,1], y in [0,1] and builds at most 4
\* patches, which tile {0,0,512,512} when all are supplied.
C9_TileRangeExample ==
    ExampleFrame
        => /\ RequestedKeys = TileKeys(5, 0, 1)
           /\ Len(patches) <= 4
           /\ AllSupplied => DstCoverGauge

\* C9 (amended): that update requests exactly the 9 tiles x in [0,2], y in [0,2]
\* (the last pixel is 100 + 512 - 1 = 611, in tile 2) and builds at most 9
\* patches, which tile {0,0,512,512} when all are supplied.
C9_TileRangeAmended ==
    ExampleFrame
        => /\ RequestedKeys = TileKeys(5, 0, 2)
           /\ Len(patches) <= 9
           /\ DstInside /\ DstDisjoint
           /\ AllSupplied => DstCoverGauge

\* C9 witness: the example's frame with all of its 9 patches
C9_Witness == ExampleFrame /\ Len(patches) = 9 /\ DstCoverGauge

(* ---- cache ---- *)
PatchLayers == {patches[i].layer : i \in DOMAIN patches}
Cached(l) == l[2] \in SeqRange(cache[l[1]])
Referenced(c, p) == \A i \in DOMAIN c : refcnt[Layer(p, c[i])] > 0

\* C10: an evicted entry had a reference count of 0; a layer of the current patch
\* list stays cached and referenced; an insertion evicts only at capacity, at most
\* one entry, and when every entry is referenced it evicts none and the cache
\* grows past its capacity.
C10_EvictionSafety ==
    /\ [](\A e \in trace.evicted : e.refs = 0)
    /\ [](\A l \in PatchLayers : Cached(l) /\ l \in DOMAIN refcnt /\ refcnt[l] > 0)
    /\ [][\A p \in Providers :
            (op'.name = "fetch_complete" /\ cache'[p] # cache[p])
                => /\ Len(cache'[p]) >= Len(cache[p])
                   /\ (Len(cache[p]) < CacheCapacity(gw, gh))
                        => SeqRange(cache[p]) \subseteq SeqRange(cache'[p])
                   /\ Referenced(cache[p], p)
                        => /\ SeqRange(cache[p]) \subseteq SeqRange(cache'[p])
                           /\ Len(cache'[p]) = Len(cache[p]) + 1]_vars

\* C10 witness: with patches holding references, a cache that had to grow past its
\* capacity has just evicted an unreferenced entry
C10_Witness ==
    /\ op.name = "fetch_complete" /\ trace.evicted # {} /\ patches # <<>>
    /\ \E p \in Providers : Len(cache[p]) > CacheCapacity(gw, gh)

(* ---- references ---- *)
\* the tiles of the visible range, as keys
VisibleKeys ==
    {<<level, x, y>> : x \in TopLeftTile(Self)[1] .. BottomRightTile(Self)[1],
                       y \in TopLeftTile(Self)[2] .. BottomRightTile(Self)[2]}
PatchKeys == {patches[i].layer[2] : i \in DOMAIN patches}
\* the number of patches of the current list that point to image l
RefsHeld(l) == Cardinality({i \in DOMAIN patches : patches[i].layer = l})

\* C11: the references the gauge holds on each image are exactly one per patch of
\* the current list that points to it (none on other images, none after dispose);
\* the list an update leaves holds patches of the current frame only, one per tile.
C11_ReferenceDiscipline ==
    /\ \A l \in DOMAIN refcnt : refcnt[l] = RefsHeld(l)
    /\ PatchLayers \subseteq DOMAIN refcnt
    /\ Updated => (PatchKeys \subseteq VisibleKeys /\ Cardinality(PatchKeys) = Len(patches))
    /\ (op.name = "dispose") => (patches = <<>> /\ \A l \in DOMAIN refcnt : refcnt[l] = 0)

\* C11 witness: a gauge disposed after frames that held references on images of
\* both providers, in a cache that has known four images
C11_Witness ==
    /\ op.name = "dispose" /\ apatches = 4 /\ trace.built
    /\ Cardinality(DOMAIN refcnt) >= 4
    /\ \A l \in DOMAIN refcnt : refcnt[l] = 0

(* ---- source chain ---- *)
\* the providers that hold tile key in their cache
HitAt(key) == {p \in Providers : key \in SeqRange(cache[p])}
FirstHit(key) == CHOOSE p \in HitAt(key) : \A q \in HitAt(key) : p <= q
\* the providers a request list asked for tile key
Asked(reqs, key) == {reqs[i][1] : i \in {j \in DOMAIN reqs : reqs[j][2] = key}}
\* each provider is asked at most once per tile, in index order
InIndexOrder(reqs) ==
    \A i, j \in DOMAIN reqs :
        (i < j /\ reqs[i][2] = reqs[j][2]) => reqs[i][1] < reqs[j][1]

\* C12: an update that rebuilds the list asks, for every tile of the visible
\* range, the providers in index order up to the first that holds it; the tile's
\* patch shows that provider's image; a tile no provider holds gets no patch,
\* and the tiles after it are still processed.
C12_SourceChainPriority ==
    [][(op'.name = "update" /\ trace'.built)
        => /\ InIndexOrder(trace'.requests)
           /\ \A i \in DOMAIN trace'.requests : trace'.requests[i][2] \in VisibleKeys
           /\ \A key \in VisibleKeys :
                IF HitAt(key) = {}
                THEN /\ Asked(trace'.requests, key) = Providers
                     /\ \A i \in DOMAIN patches' : patches'[i].layer[2] # key
                ELSE /\ Asked(trace'.requests, key) = 1 .. FirstHit(key)
                     /\ \E i \in DOMAIN patches' :
                            patches'[i].layer = Layer(FirstHit(key), key)
                     /\ \A i \in DOMAIN patches' :
                            patches'[i].layer[2] = key
                                => patches'[i].layer[1] = FirstHit(key)]_vars

\* C12 witness: a frame of four tiles in which the first tile is held by both
\* providers and shown from the first, the second is held by none, the third
\* comes from the second provider and the fourth from the first
C12_Witness ==
    /\ Updated /\ Len(patches) = 3
    /\ patches[1].layer = Layer(1, <<1, 0, 0>>)
    /\ <<1, 0, 0>> \in SeqRange(cache[2])
    /\ Asked(trace.requests, <<1, 0, 0>>) = {1}
    /\ Asked(trace.requests, <<1, 1, 0>>) = Providers
    /\ patches[2].layer = Layer(2, <<1, 0, 1>>)
    /\ patches[3].layer = Layer(1, <<1, 1, 1>>)

(* ---- heading ---- *)
\* setMarkerHeading sets the dirty flag only when the stored heading changes
DirtyOnlyOnChange ==
    [][(op'.name = "set_marker_heading")
        => /\ (marker_heading' = marker_heading) => (dirty' = dirty /\ ret' = FALSE)
           /\ (marker_heading' # marker_heading) => (dirty' /\ ret' = TRUE)]_vars

\* C13 (as claimed): the stored heading is always in the half-open interval
\* [0,360), and setMarkerHeading sets dirty only when the stored heading changes.
C13_HeadingRange ==
    /\ [](0 <= marker_heading /\ marker_heading < 360)
    /\ DirtyOnlyOnChange

\* C13 (amended): the stored heading is always in the closed interval [0,360]
\* (arguments of 360 and above are stored as 360, negative ones as 0), and
\* setMarkerHeading sets dirty only when the stored heading changes.
C13_HeadingClosedRange ==
    /\ [](0 <= marker_heading /\ marker_heading <= 360)
    /\ [][(op'.name = "set_marker_heading")
            => marker_heading' \in (HeadingArgs \cap 0 .. 360) \cup {0, 360}]_vars
    /\ DirtyOnlyOnChange

\* C13 witness: a call stored 360 and marked a clean gauge dirty
C13_Witness ==
    /\ op.name = "set_marker_heading" /\ marker_heading = 360 /\ ret = TRUE /\ dirty
    /\ now > 0

(* ---- allocation failure ---- *)
\* the patch array is too small for the visible range
MustGrow == apatches < TileSpan(Self)

\* C14: an update whose realloc fails leaves the patch list, its capacity and
\* every reference as they were; it fails only when the array had to grow; and
\* any update that finds the array too small either fails that way or grows it
\* to the tile span (so the growth is retried until it succeeds).
C14_AllocFailurePreserves ==
    [][(op'.name = "update")
        => /\ trace'.alloc_failed
                => (MustGrow /\ UNCHANGED <<patches, apatches, refcnt, cache>>)
           /\ MustGrow
                => \/ trace'.alloc_failed
                   \/ (trace'.built /\ apatches' = TileSpan(Self))
           /\ trace'.alloc_failed # trace'.built]_vars

\* C14 witness: a failed growth from one slot to four left the one patch and its
\* reference in place
C14_Witness ==
    /\ op.name = "update" /\ trace.alloc_failed
    /\ apatches = 1 /\ TileSpan(Self) = 4 /\ Len(patches) = 1
    /\ refcnt[patches[1].layer] = 1

(* ---- misses ---- *)
\* update writes none of the fields that define the view
ViewUntouched ==
    UNCHANGED <<level, world_x, world_y, marker_x, marker_y, marker_heading, roaming,
                last_manipulation>>
\* the tiles the previous update asked for and got from no provider
MissedLast == {k \in RequestedKeys : k \notin PatchKeys}
RequestedNext == {trace'.requests[i][2] : i \in DOMAIN trace'.requests}

\* C15 (as claimed): an update leaves the view fields unchanged, and requests again
\* every tile that the previous update missed and that is still in the range.
C15_MissesRetried ==
    [][(op'.name = "update")
        => /\ ViewUntouched
           /\ (MissedLast \cap VisibleKeys) \subseteq RequestedNext]_vars

\* C15 (amended): an update leaves the view fields unchanged; unless its realloc
\* fails (it then requests nothing), it requests every tile of the visible range,
\* those the previous update missed included.
C15_MissesRetriedUnlessAllocFails ==
    [][(op'.name = "update")
        => /\ ViewUntouched
           /\ trace'.built
                => /\ RequestedNext = VisibleKeys
                   /\ (MissedLast \cap VisibleKeys) \subseteq RequestedNext
           /\ trace'.alloc_failed => RequestedNext = {}]_vars

\* C15 witness: a frame of the four-tile view that shows three tiles and has asked
\* once more for the tile no source has
C15_Witness ==
    /\ Updated /\ world_x = 200 /\ world_y = 200 /\ level = 1
    /\ <<1, 1, 0>> \in RequestedKeys /\ <<1, 1, 0>> \notin PatchKeys
    /\ <<1, 0, 1>> \in PatchKeys

(* ---- roaming expiry ---- *)
\* C16: once manipulations have stopped, with the clock advancing and marker
\* updates delivered, a roaming gauge eventually is FOLLOWING again, by a marker
\* update that recentred; until 2000 ms have passed since the last manipulation a
\* marker update leaves it roaming; and nothing but a marker update ends roaming
\* (there is no timer).
C16_RoamingExpires ==
    /\ roaming ~> (~roaming /\ op.name = "set_marker_position" /\ centers >= 1)
    /\ [][(op'.name = "manipulate_viewport") => (roaming' /\ last_manipulation' = now)]_vars
    /\ [][(op'.name = "set_marker_position" /\ roaming /\ Elapsed < MANIPULATE_TIMEOUT)
            => roaming']_vars
    /\ [][(roaming /\ ~roaming') => op'.name = "set_marker_position"]_vars

\* C16 witness: roaming restarted by a second manipulation at 1500 ms has expired
\* after the clock passed 3500 ms
C16_Witness ==
    /\ ~roaming /\ op.name = "set_marker_position" /\ centers >= 1
    /\ last_manipulation = 1500 /\ now > 3000

(* ---- sub-pixel coalescing ---- *)
\* geographic positions at and around the marker: its own, the neighbouring units,
\* and the two ends of the interval that rounds to its pixel at the current level
SubPixelOffsets == {0, 1, 0 - 1, GeoScale(level) \div 2 - 1, 0 - (GeoScale(level) \div 2)}
SubPixelGeo ==
    LET g == map_math_pixel_to_geo(marker_x, marker_y, level)
    IN  {<<g[1] + dx, g[2] + dy>> : dx \in SubPixelOffsets, dy \in SubPixelOffsets}
NoTimeoutPending == roaming => Elapsed <= MANIPULATE_TIMEOUT
ProjectsToMarker(geo) == map_math_geo_to_pixel(geo, level) = <<marker_x, marker_y>>

\* C17: with no roaming timeout pending, set_marker_position with a position that
\* projects to the marker's current pixel returns false and changes nothing: marker,
\* viewport origin, dirty flag, roam state and timestamp stay as they are, and
\* neither follow_marker nor center_on_marker is called.
C17_SubPixelCoalescing ==
    \A geo \in SubPixelGeo :
        (NoTimeoutPending /\ ProjectsToMarker(geo)) =>
            LET r == map_gauge_set_marker_position(Self, geo, now)
            IN  /\ r.ret = FALSE
                /\ r.follows = 0 /\ r.centers = 0
                /\ r = [Self EXCEPT !.ret = FALSE]

\* C17 witness: while roaming, before the timeout, a marker update that projects to
\* the marker's pixel has been delivered and reported no change; in this state a
\* position half a pixel away still projects to the same pixel
C17_Witness ==
    /\ op.name = "set_marker_position" /\ ret = FALSE
    /\ roaming /\ NoTimeoutPending /\ level = 1
    /\ \E geo \in SubPixelGeo :
          /\ ProjectsToMarker(geo)
          /\ geo # map_math_pixel_to_geo(marker_x, marker_y, level)

(* ---- cache capacity ---- *)
\* the tiles a viewport of n pixels touches on one axis at the worst origin, one
\* pixel before a tile boundary (lines 395-404 with world_x = TILE_SIZE - 1)
WorstAxisSpan(n) == (TILE_SIZE - 1 + n - 1) \div TILE_SIZE + 1
MaxFrameTiles(w, h) == WorstAxisSpan(w) * WorstAxisSpan(h)
FrameFitsCache == Len(patches) <= CacheCapacity(gw, gh)

\* C18: the capacity given to each tile provider is at least 4 and at least twice
\* the largest number of tiles one update can reference for the gauge's size, so
\* the patch list of a frame never holds more tiles than a cache can.
C18_CapacitySizing ==
    /\ CacheCapacity(gw, gh) >= 4
    /\ CacheCapacity(gw, gh) >= 2 * MaxFrameTiles(gw, gh)
    /\ FrameFitsCache

(* ---- the animated flag ---- *)
\* viewport targets: the arguments the gauge is driven with, the origin, the current
\* position and its neighbours, and one beyond the far edge of every level's world
AnimatedTargets ==
    ViewportArgs \cup {<<0, 0>>, <<world_x, world_y>>, <<world_x + 1, world_y>>,
                       <<world_x, world_y + 1>>, <<map_math_size(level), 0>>}
ClampedTarget(v) ==
    <<clamp(v[1], 0, map_math_size(level) - 1 - gw),
      clamp(v[2], 0, map_math_size(level) - 1 - gh)>>

SrcInWorld(p) ==
    Rect(p.src.x + TILE_SIZE * p.layer[2][2], p.src.y + TILE_SIZE * p.layer[2][3],
         p.src.w, p.src.h)
DstInWorld(p) == Rect(p.dst.x + world_x, p.dst.y + world_y, p.dst.w, p.dst.h)

\* C20: every patch has a non-empty source rectangle inside the tile's square
\* [0,255]x[0,255], a destination rectangle inside {0, 0, w, h}, both of the same
\* width and height; in the frame an update built, source plus tile origin and
\* destination plus viewport origin are the same world rectangle.
C20_PatchGeometry ==
    \A i \in DOMAIN patches :
        /\ RectInside(patches[i].src, TILE_SIZE, TILE_SIZE)
        /\ RectInside(patches[i].dst, gw, gh)
        /\ patches[i].src.w = patches[i].dst.w
        /\ patches[i].src.h = patches[i].dst.h
        /\ Updated => SrcInWorld(patches[i]) = DstInWorld(patches[i])

\* C20 witness: a frame at the junction of four tiles, with a patch that starts
\* inside its tile and a patch that starts inside the viewport
C20_Witness ==
    /\ Updated /\ world_x = 200 /\ world_y = 200
    /\ \E i \in DOMAIN patches : patches[i].src.x > 0 /\ patches[i].src.y > 0
    /\ \E i \in DOMAIN patches : patches[i].dst.x > 0 /\ patches[i].dst.y > 0

(* ---- relative scrolling ---- *)
\* increments: those the gauge is driven with, and small ones in each direction
ScrollArgs == MoveArgs \cup {<<0 - 10, 0>>, <<0, 0 - 10>>, <<10, 10>>, <<0, 0>>}
\* the origin r relative to the current one, in the direction of the increment d
ScrollsTowards(r, d) ==
    /\ d[1] <= 0 => ULeq(r.world_x, world_x)
    /\ d[1] >= 0 => ULeq(world_x, r.world_x)
    /\ d[2] <= 0 => ULeq(r.world_y, world_y)
    /\ d[2] >= 0 => ULeq(world_y, r.world_y)

\* C21: move_viewport and manipulate_viewport with a non-positive increment never
\* increase the coordinate, with a non-negative one never decrease it; a negative
\* increment larger than the coordinate ends at 0.
C21_ScrollDirection ==
    \A d \in ScrollArgs :
        LET m == map_gauge_move_viewport(Self, d[1], d[2], FALSE)
            u == map_gauge_manipulate_viewport(Self, d[1], d[2], FALSE, now)
        IN  /\ ScrollsTowards(m, d) /\ ScrollsTowards(u, d)
            /\ (d[1] < 0 /\ world_x + d[1] < 0) => (m.world_x = 0 /\ u.world_x = 0)
            /\ (d[2] < 0 /\ world_y + d[2] < 0) => (m.world_y = 0 /\ u.world_y = 0)

(* ---- the marker patch ---- *)
\* a rectangle in the marker sprite's own coordinates
InsideSprite(r) ==
    /\ 0 <= r.x /\ r.x + r.w <= MARKER_W
    /\ 0 <= r.y /\ r.y + r.h <= MARKER_H
\* what render tests before drawing the marker (line 499)
MarkerDrawn == marker_src.x >= 0

\* C22: marker_src and marker_dst are written by update only; when render runs,
\* the marker is drawn iff the last update found it in the viewport (marker_dst,
\* is then a viewport rectangle) and marker_src lies within the sprite.
C22_MarkerPatchOwner ==
    /\ [][(op'.name # "update") => (marker_src' = marker_src /\ marker_dst' = marker_dst)]_vars
    /\ [][(op'.name = "render") =>
            /\ MarkerDrawn <=> marker_dst.x >= 0
            /\ MarkerDrawn => InsideSprite(marker_src)]_vars

(* ---- patch array bounds ---- *)
\* C23: the patch list never holds more patches than the array has slots.  update
\* fills the list from index 0 while the capacity stays fixed, so every write was
\* below the capacity when the finished list is; a frame has at most one patch per
\* tile of the range, each for a different tile.
C23_PatchArrayBounds ==
    /\ ULeq(Len(patches), apatches)
    /\ (Updated /\ ~SpanWraps(Self)) =>
           /\ Len(patches) <= TileSpan(Self)
           /\ Cardinality(PatchKeys) = Len(patches)
           /\ PatchKeys \subseteq VisibleKeys

\* C23 witness: a frame of four tiles that fills the array to its last slot, on a
\* gauge whose array was grown from a smaller one
C23_Witness ==
    /\ Updated /\ Len(patches) = 4 /\ apatches = 4 /\ TileSpan(Self) = 4

(* ---- requested tiles ---- *)
\* tile <<l, x, y>> is one of the 2^l by 2^l tiles of level l
TileExists(k) ==
    /\ k[1] \in 0 .. MAP_GAUGE_MAX_LEVEL
    /\ 0 <= k[2] /\ k[2] < Pow2(k[1])
    /\ 0 <= k[3] /\ k[3] < Pow2(k[1])

\* C24: every tile an update asks a provider for is a tile of its level.
C24_RequestedTilesExist == \A k \in RequestedKeys : TileExists(k)

(* ---- telemetry decoder ---- *)
\* the complete rows of the last datagram, if it was decoded
DecodedRows ==
    IF xp.packet.len >= HEADER_SIZE /\ xp.packet.len <= BUFFER_SIZE
       /\ xp.packet.match = HEADER_SIZE
    THEN 0 .. (xp.packet.len - HEADER_SIZE) \div ROW_SIZE - 1
    ELSE {}

\* C25: every access the frame makes to the receive buffer is within 0 .. 1023,
\* every access to lookup_table within the table, and a decoded field changes only
\* by a complete row carrying a registered row id.
C25_DecoderMemorySafe ==
    /\ \A a \in xp.buffer_access : 0 <= a[1] /\ a[1] <= a[2] /\ a[2] <= BUFFER_SIZE - 1
    /\ xp.table_access \subseteq 0 .. LOOKUP_TABLE_SIZE - 1
    /\ \A id \in Registered :
          xp.decoded[id] # xp.prev[id] => \E i \in DecodedRows : RowId(xp.packet, i) = id

====
